---- MODULE Spec2Model ----
(***************************************************************************)
(* Model of the vmds Terraform provider: the cluster resource lifecycle    *)
(* (Create / Read / Update / Delete with their polling loops), the state   *)
(* mapper saveFromResponse, the regions data source with its mapper        *)
(* saveRegionsToState, and the service roles data source.                  *)
(*                                                                         *)
(* The remote control plane, the plugin framework's value conversions and  *)
(* the plugin host are the environment: every remote call result, every    *)
(* conversion outcome and every decode outcome is an input chosen with \E. *)
(***************************************************************************)
EXTENDS Integers, Sequences, FiniteSets, TLC

VARIABLES
    op,             \* lifecycle entry point the host invoked ("none" before)
    pc,             \* position inside the running handler
    plan,           \* the handler's local clusterResourceModel (plan / state)
    diags,          \* resp.Diagnostics: summaries of the error diagnostics
    respState,      \* resp.State: whether Set succeeded, and the value written
    createdCluster, \* the snapshot the handler currently holds
    trace,          \* remote calls and sleeps made so far, in order
    fetched,        \* snapshots returned by the successful fetches, in order
    failures,       \* kinds of failure the operation has encountered
    savePre,        \* target model as it was when the last mapper call began
    saveRet,        \* return value of the last mapper call (-1: none yet)
    regionsState,   \* regionsDataSource.Read's local regionsDataSourceModel
    regionsOut,     \* what saveRegionsToState returned (-1: none yet)
    regionsIn,      \* the regions map the last saveRegionsToState call was given
    regionsPre,     \* state.Regions when the last saveRegionsToState call began
    listed,         \* *clusters.Get(): the list GetMdsClusters returned to Create
    rolesResponse,  \* rolesResponse.Embedded.ServiceRoleDTO[0].Roles
    rolesState      \* serviceRolesDatasource.Read's local state.Roles

vars == <<op, pc, plan, diags, respState, createdCluster, trace, fetched,
          failures, savePre, saveRet, regionsState, regionsOut, regionsIn,
          regionsPre, listed, rolesResponse, rolesState>>

-----------------------------------------------------------------------------
(* Bounds of the model *)

\* greatest number of poll iterations (sleep + GetMdsCluster) explored
MaxPolls == 2

-----------------------------------------------------------------------------
(* Program constants *)

\* time.Sleep(10 * time.Second)
PollInterval == 10

\* http.StatusNotFound
StatusNotFound == 404

-----------------------------------------------------------------------------
(* Errors returned by the REST client *)

NilError == [isNil |-> TRUE,  api |-> FALSE, code |-> 0]

ApiError(code) == [isNil |-> FALSE, api |-> TRUE, code |-> code]

\* an error that is not a core.ApiError (errors.As fails)
PlainError == [isNil |-> FALSE, api |-> FALSE, code |-> 0]

Errors == {ApiError(StatusNotFound), ApiError(500), PlainError}

Results == Errors \cup {NilError}

IsNotFound_Never(err) == FALSE

\* errors.As(err, &apiError) && apiError.StatusCode == http.StatusNotFound
IsNotFound(err) == err.api /\ err.code = StatusNotFound

-----------------------------------------------------------------------------
(* terraform-plugin-framework values *)

StringValue(s) == [state |-> "known", value |-> s]

StringUnknown == [state |-> "unknown", value |-> ""]

StringNull == [state |-> "null", value |-> ""]

BoolValue(b) == [state |-> "known", value |-> b]

ListNull == [state |-> "null", elems |-> <<>>]

\* types.ListValueFrom(ctx, types.StringType, []string): order and length kept
ListValueFrom(strs) == [state |-> "known", elems |-> [i \in 1..Len(strs) |-> StringValue(strs[i])]]

\* types.SetValueFrom(ctx, types.StringType, []string): an unordered collection
SetValueFrom(strs) == [state |-> "known", elems |-> {StringValue(strs[i]) : i \in 1..Len(strs)}]

SetUnknown == [state |-> "unknown", elems |-> {}]

\* clusterMetadataModel
ClusterMetadataModel(manager, connection, endpoints) ==
    [ManagerUri |-> manager, ConnectionUri |-> connection, MetricsEndpoints |-> endpoints]

\* types.ObjectValueFrom(ctx, attrTypes, metadataModel)
ObjectValueFrom(m) ==
    [state |-> "known",
     attrs |-> [manager_uri |-> m.ManagerUri,
                connection_uri |-> m.ConnectionUri,
                metrics_endpoints |-> m.MetricsEndpoints]]

ObjectUnknown ==
    [state |-> "unknown",
     attrs |-> [manager_uri |-> StringNull,
                connection_uri |-> StringNull,
                metrics_endpoints |-> ListNull]]

-----------------------------------------------------------------------------
(* Remote snapshots: model.MdsCluster *)

ClusterIds == {"c1", "c2"}

NonTerminalStatuses == {"PENDING", "IN_PROGRESS"}

Statuses == NonTerminalStatuses \cup {"READY", "FAILED"}

NameOf(id) == IF id = "c1" THEN "alpha" ELSE "beta"

TagsOf(id) == IF id = "c1" THEN <<"t1">> ELSE <<"t2", "t1">>

NilMetadata ==
    [isNil |-> TRUE, ManagerUri |-> "", ConnectionUri |-> "", MetricsEndpoints |-> <<>>]

SomeMetadata ==
    [isNil |-> FALSE, ManagerUri |-> "https://mgr", ConnectionUri |-> "amqps://conn",
     MetricsEndpoints |-> <<"e1", "e2">>]

MdsCluster(id, status, metadata) ==
    [ID |-> id, Name |-> NameOf(id), ServiceType |-> "RABBITMQ", Provider |-> "aws",
     InstanceSize |-> "XX-SMALL", Region |-> "eu-west-1", Status |-> status,
     OrgId |-> "org-remote", DataPlaneId |-> "dp-remote", LastUpdated |-> "t-updated",
     Created |-> "t-created", Metadata |-> metadata, Tags |-> TagsOf(id)]

\* snapshots the remote may return; a cluster still being provisioned has no
\* metadata yet, a settled one may or may not have it
Clusters ==
    {MdsCluster(id, st, NilMetadata) : id \in ClusterIds, st \in Statuses}
        \cup {MdsCluster(id, st, SomeMetadata) : id \in ClusterIds, st \in {"READY", "FAILED"}}

\* the placeholder held before any snapshot was fetched
NoCluster == MdsCluster("", "", NilMetadata)

\* results of the name-filtered list fetch
ClusterLists ==
    {<<>>} \cup {<<c>> : c \in Clusters}
           \cup {<<MdsCluster("c1", st, NilMetadata), MdsCluster("c2", "READY", NilMetadata)>> :
                     st \in {"PENDING", "FAILED"}}

-----------------------------------------------------------------------------
(* Local models: clusterResourceModel as the host hands it over *)

\* the plan of a create: computed attributes unknown
CreatePlan ==
    [ID |-> StringUnknown, OrgId |-> StringUnknown, Name |-> StringValue("alpha"),
     ServiceType |-> StringValue("RABBITMQ"), Provider |-> StringValue("aws"),
     InstanceSize |-> StringValue("XX-SMALL"), Region |-> StringValue("eu-west-1"),
     Tags |-> SetValueFrom(<<"t1">>), NetworkPolicyIds |-> SetValueFrom(<<"np1">>),
     Dedicated |-> BoolValue(FALSE), Shared |-> BoolValue(FALSE),
     Status |-> StringUnknown, DataPlaneId |-> StringValue("dp-plan"),
     LastUpdated |-> StringUnknown, Created |-> StringUnknown,
     Metadata |-> ObjectUnknown]

\* the prior state of an existing cluster (Read, Delete)
PriorState ==
    [ID |-> StringValue("c1"), OrgId |-> StringValue("org-old"), Name |-> StringValue("alpha"),
     ServiceType |-> StringValue("RABBITMQ"), Provider |-> StringValue("aws"),
     InstanceSize |-> StringValue("XX-SMALL"), Region |-> StringValue("eu-west-1"),
     Tags |-> SetValueFrom(<<"t0">>), NetworkPolicyIds |-> SetValueFrom(<<"np1">>),
     Dedicated |-> BoolValue(FALSE), Shared |-> BoolValue(FALSE),
     Status |-> StringValue("READY"), DataPlaneId |-> StringValue("dp-old"),
     LastUpdated |-> StringValue("t-old"), Created |-> StringValue("t-created"),
     Metadata |-> ObjectValueFrom(ClusterMetadataModel(StringValue("https://old"),
                                                       StringValue("amqps://old"),
                                                       ListValueFrom(<<"e0">>)))]

\* the plan of an update: prior state with new tags
UpdatePlan == [PriorState EXCEPT !.Tags = SetValueFrom(<<"t1", "t2">>)]

\* the zero value of the local model, before the host's payload is decoded
ZeroModel ==
    [ID |-> StringNull, OrgId |-> StringNull, Name |-> StringNull,
     ServiceType |-> StringNull, Provider |-> StringNull,
     InstanceSize |-> StringNull, Region |-> StringNull,
     Tags |-> [state |-> "null", elems |-> {}],
     NetworkPolicyIds |-> [state |-> "null", elems |-> {}],
     Dedicated |-> [state |-> "null", value |-> FALSE],
     Shared |-> [state |-> "null", value |-> FALSE],
     Status |-> StringNull, DataPlaneId |-> StringNull,
     LastUpdated |-> StringNull, Created |-> StringNull,
     Metadata |-> [state |-> "null", attrs |-> ObjectUnknown.attrs]]

-----------------------------------------------------------------------------
(* Diagnostics *)

AddError(d, summary) == Append(d, summary)

HasError(d) == Len(d) > 0

-----------------------------------------------------------------------------
(* The state mapper of the cluster resource *)

\* outcomes of the three framework conversions saveFromResponse makes
ConversionFailures == [list : BOOLEAN, object : BOOLEAN, set : BOOLEAN]

NoConversionFailure == [list |-> FALSE, object |-> FALSE, set |-> FALSE]

\* the eleven scalar assignments that open saveFromResponse
SaveScalars(state, cluster) ==
    [state EXCEPT
        !.ID = StringValue(cluster.ID),
        !.Name = StringValue(cluster.Name),
        !.ServiceType = StringValue(cluster.ServiceType),
        !.Provider = StringValue(cluster.Provider),
        !.InstanceSize = StringValue(cluster.InstanceSize),
        !.Region = StringValue(cluster.Region),
        !.Status = StringValue(cluster.Status),
        !.OrgId = StringValue(cluster.OrgId),
        !.DataPlaneId = StringValue(cluster.DataPlaneId),
        !.LastUpdated = StringValue(cluster.LastUpdated),
        !.Created = StringValue(cluster.Created)]

MetadataModelOf_ZeroValue(cluster) ==
    IF cluster.Metadata.isNil
    THEN ClusterMetadataModel(StringNull, StringNull, ListNull)
    ELSE ClusterMetadataModel(StringValue(cluster.Metadata.ManagerUri),
                              StringValue(cluster.Metadata.ConnectionUri),
                              ListValueFrom(cluster.Metadata.MetricsEndpoints))

\* metadataModel as built before types.ObjectValueFrom
MetadataModelOf(cluster) ==
    IF cluster.Metadata.isNil
    THEN ClusterMetadataModel(StringValue(""), StringValue(""), ListNull)
    ELSE ClusterMetadataModel(StringValue(cluster.Metadata.ManagerUri),
                              StringValue(cluster.Metadata.ConnectionUri),
                              ListValueFrom(cluster.Metadata.MetricsEndpoints))

SaveFromResponse_KeepsStatus(diagnostics, state, cluster, fail) ==
    LET s1 == [SaveScalars(state, cluster) EXCEPT !.Status = state.Status]
    IN  IF (~cluster.Metadata.isNil /\ fail.list) \/ fail.object \/ fail.set
        THEN [ret |-> 1, state |-> s1, diags |-> AddError(diagnostics, "Value Conversion Error")]
        ELSE [ret |-> 0,
              state |-> [s1 EXCEPT !.Metadata = ObjectValueFrom(MetadataModelOf(cluster)),
                                   !.Tags = SetValueFrom(cluster.Tags)],
              diags |-> diagnostics]

\* saveFromResponse: the target after the call, the diagnostics and the return
\* value.  fail says which framework conversion reports an error.
SaveFromResponse(diagnostics, state, cluster, fail) ==
    LET s1 == SaveScalars(state, cluster)
        d1 == IF ~cluster.Metadata.isNil /\ fail.list
              THEN AddError(diagnostics, "Value Conversion Error") ELSE diagnostics
    IN  IF ~cluster.Metadata.isNil /\ HasError(d1)
        THEN [ret |-> 1, state |-> s1, diags |-> d1]
        ELSE
        LET d2 == IF fail.object THEN AddError(d1, "Value Conversion Error") ELSE d1
        IN  IF HasError(d2)
            THEN [ret |-> 1, state |-> s1, diags |-> d2]
            ELSE
            LET s2 == [s1 EXCEPT !.Metadata = ObjectValueFrom(MetadataModelOf(cluster))]
                d3 == IF fail.set THEN AddError(d2, "Value Conversion Error") ELSE d2
            IN  IF HasError(d3)
                THEN [ret |-> 1, state |-> s2, diags |-> d3]
                ELSE [ret |-> 0, state |-> [s2 EXCEPT !.Tags = SetValueFrom(cluster.Tags)],
                      diags |-> d3]

-----------------------------------------------------------------------------
(* The state mapper of the regions data source *)

RegionNames == {"r1", "r2"}

DataPlaneIdsOf(name) == IF name = "r1" THEN <<"dp1">> ELSE <<"dp2", "dp3">>

\* results of GetRegionsWithDataPlanes: a Go map[string][]string
RegionMaps == {[n \in D |-> DataPlaneIdsOf(n)] : D \in SUBSET RegionNames}

\* the orders in which `range regions` may visit the keys of the map
Orders(m) ==
    {o \in [1..Cardinality(DOMAIN m) -> DOMAIN m] :
        \A i, j \in 1..Cardinality(DOMAIN m) : i # j => o[i] # o[j]}

\* RegionsModel
RegionsModel(name, list) ==
    [ID |-> StringValue(name), Name |-> StringValue(name), DataPlaneIds |-> list]

\* the configuration of the data source as decoded by req.Config.Get
RegionsConfig ==
    [Cpu |-> StringValue("1"), Provider |-> StringValue("aws"), Memory |-> StringValue("4Gi"),
     Storage |-> StringValue("4Gi"), NodeCount |-> StringValue("3"), Regions |-> <<>>,
     DedicatedDataPlane |-> BoolValue(FALSE), Id |-> StringNull]

\* var state regionsDataSourceModel
ZeroRegionsModel ==
    [Cpu |-> StringNull, Provider |-> StringNull, Memory |-> StringNull,
     Storage |-> StringNull, NodeCount |-> StringNull, Regions |-> <<>>,
     DedicatedDataPlane |-> [state |-> "null", value |-> FALSE], Id |-> StringNull]

RECURSIVE SaveRegionsLoop(_, _, _, _, _, _)
\* the body of `for regionName, dataPlaneIds := range regions`, from the i-th
\* key visited on; failAt is the iteration whose ListValueFrom reports an error
SaveRegionsLoop(diagnostics, state, regions, order, i, failAt) ==
    IF i > Len(order)
    THEN [ret |-> 0, state |-> state, diags |-> diagnostics]
    ELSE
    LET d == IF failAt = i THEN AddError(diagnostics, "Value Conversion Error")
             ELSE diagnostics
        instanceTypesState == RegionsModel(order[i], ListValueFrom(regions[order[i]]))
    IN  IF HasError(d)
        THEN [ret |-> 1, state |-> state, diags |-> d]
        ELSE SaveRegionsLoop(d,
                             [state EXCEPT !.Regions = Append(state.Regions, instanceTypesState)],
                             regions, order, i + 1, failAt)

\* saveRegionsToState
SaveRegionsToState(diagnostics, state, regions, order, failAt) ==
    SaveRegionsLoop(diagnostics, state, regions, order, 1, failAt)

-----------------------------------------------------------------------------
(* Remote calls and sleeps, as recorded in the trace *)

Call(name, id, err) == [call |-> name, id |-> id, dur |-> 0, res |-> err]

Sleep(seconds) == [call |-> "Sleep", id |-> "", dur |-> seconds, res |-> NilError]

Calls(t, name) == {i \in 1..Len(t) : t[i].call = name}

Last(s) == s[Len(s)]

NoState == [set |-> FALSE, value |-> ZeroModel]

-----------------------------------------------------------------------------
(* Initial state: the provider is configured, no entry point has run *)

Init ==
    /\ op = "none"
    /\ pc = "idle"
    /\ plan = ZeroModel
    /\ diags = <<>>
    /\ respState = NoState
    /\ createdCluster = NoCluster
    /\ trace = <<>>
    /\ fetched = <<>>
    /\ failures = {}
    /\ savePre = ZeroModel
    /\ saveRet = -1
    /\ regionsState = ZeroRegionsModel
    /\ regionsOut = -1
    /\ regionsIn = <<>>
    /\ regionsPre = <<>>
    /\ listed = <<>>
    /\ rolesResponse = <<>>
    /\ rolesState = <<>>

regionsVars == <<regionsState, regionsOut, regionsIn, regionsPre>>

rolesVars == <<rolesResponse, rolesState>>

saveVars == <<savePre, saveRet>>

pollVars == <<createdCluster, fetched>>

\* number of poll iterations begun so far
Polls == Cardinality(Calls(trace, "Sleep"))

-----------------------------------------------------------------------------
(* clusterResource.Create *)

LoopCond_OnlyPending(status) == status = "PENDING"

\* for createdCluster.Status != "READY" && createdCluster.Status != "FAILED"
LoopCond(status) == status # "READY" /\ status # "FAILED"

CreatePcAfterFetch_GivesUp(err, status) ==
    IF ~err.isNil THEN "done"
    ELSE IF LoopCond(status) THEN (IF Polls >= 1 THEN "done" ELSE "sleep") ELSE "save"

CreatePcAfterFetch_Retries(err, status) ==
    IF ~err.isNil \/ LoopCond(status) THEN "sleep" ELSE "save"

\* where Create goes after a poll fetch: return on error, else test the loop
CreatePcAfterFetch(err, status) ==
    IF ~err.isNil THEN "done"
    ELSE IF LoopCond(status) THEN "sleep" ELSE "save"

PollEvents_ByName(name, id, err) == <<Call("GetMdsCluster", name, err)>>

PollEvents_Resubmits(name, id, err) ==
    <<Call("CreateMdsCluster", name, NilError), Call("GetMdsCluster", id, err)>>

\* the remote calls of one iteration of Create's loop, after its sleep
PollEvents(name, id, err) == <<Call("GetMdsCluster", id, err)>>

\* req.Plan.Get, the request body, and CreateMdsCluster
CreateSubmit(decodeOk, elementsOk, err) ==
    /\ op = "none"
    /\ op' = "Create"
    /\ IF ~decodeOk
       THEN /\ diags' = AddError(diags, "Value Conversion Error")
            /\ failures' = failures \cup {"Decode"}
            /\ pc' = "done"
            /\ UNCHANGED <<plan, trace>>
       ELSE /\ plan' = CreatePlan
            /\ trace' = Append(trace, Call("CreateMdsCluster", CreatePlan.Name.value, err))
            /\ failures' = failures \cup (IF elementsOk THEN {} ELSE {"ElementsAs"})
                                    \cup (IF err.isNil THEN {} ELSE {"RemoteCall"})
            /\ IF err.isNil
               THEN diags' = diags /\ pc' = "list"
               ELSE /\ diags' = AddError(diags, "Submitting request to create cluster")
                    /\ pc' = "done"
    /\ UNCHANGED <<respState, pollVars, saveVars, regionsVars, rolesVars, listed>>

\* GetMdsClusters by name, the empty-list check and the first status test
CreateList(err, clusters) ==
    /\ op = "Create" /\ pc = "list"
    /\ trace' = Append(trace, Call("GetMdsClusters", plan.Name.value, err))
    /\ IF ~err.isNil
       THEN /\ diags' = AddError(diags, "Fetching clusters")
            /\ failures' = failures \cup {"RemoteCall"}
            /\ pc' = "done"
            /\ UNCHANGED pollVars
       ELSE IF Len(clusters) <= 0
       THEN /\ diags' = AddError(diags, "Fetching Clusters")
            /\ failures' = failures \cup {"EmptyList"}
            /\ pc' = "done"
            /\ UNCHANGED pollVars
       ELSE /\ createdCluster' = clusters[1]
            /\ fetched' = Append(fetched, clusters[1])
            /\ IF clusters[1].Status = "FAILED"
               THEN /\ diags' = AddError(diags, "Error creating cluster")
                    /\ failures' = failures \cup {"RemoteFailed"}
                    /\ pc' = "done"
               ELSE /\ pc' = IF LoopCond(clusters[1].Status) THEN "sleep" ELSE "save"
                    /\ UNCHANGED <<diags, failures>>
    /\ listed' = (IF err.isNil THEN clusters ELSE listed)
    /\ UNCHANGED <<op, plan, respState, saveVars, regionsVars, rolesVars>>

\* time.Sleep(10 * time.Second) at the head of the loop body
CreateSleep ==
    /\ op = "Create" /\ pc = "sleep"
    /\ Polls < MaxPolls
    /\ trace' = Append(trace, Sleep(PollInterval))
    /\ pc' = "fetch"
    /\ UNCHANGED <<op, plan, diags, respState, pollVars, failures, saveVars, regionsVars, rolesVars, listed>>

\* GetMdsCluster(createdCluster.ID), its error check and the loop test
CreateFetch(err, cluster) ==
    /\ op = "Create" /\ pc = "fetch"
    /\ trace' = trace \o PollEvents(plan.Name.value, createdCluster.ID, err)
    /\ pc' = CreatePcAfterFetch(err, cluster.Status)
    /\ IF ~err.isNil
       THEN /\ diags' = AddError(diags, "Fetching cluster")
            /\ failures' = failures \cup {"RemoteCall"}
            /\ UNCHANGED pollVars
       ELSE /\ createdCluster' = cluster
            /\ fetched' = Append(fetched, cluster)
            /\ failures' = failures \cup (IF cluster.Status = "FAILED" THEN {"RemoteFailed"} ELSE {})
            /\ UNCHANGED diags
    /\ UNCHANGED <<op, plan, respState, saveVars, regionsVars, rolesVars, listed>>

\* the tail shared by Create, Read and Update: saveFromResponse into the local
\* model `target`, then resp.State.Set and the final HasError check
SaveAndSet(target, cluster, fail, setOk) ==
    LET r == SaveFromResponse(diags, target, cluster, fail)
    IN  /\ savePre' = target
        /\ saveRet' = r.ret
        /\ plan' = r.state
        /\ pc' = "done"
        /\ IF r.ret # 0
           THEN /\ diags' = r.diags
                /\ failures' = failures \cup {"Conversion"}
                /\ UNCHANGED respState
           ELSE IF setOk
           THEN /\ respState' = [set |-> TRUE, value |-> r.state]
                /\ diags' = r.diags
                /\ UNCHANGED failures
           ELSE /\ diags' = AddError(r.diags, "Value Conversion Error")
                /\ failures' = failures \cup {"StateSet"}
                /\ UNCHANGED respState

\* saveFromResponse(plan, createdCluster) and resp.State.Set(plan)
CreateSave(fail, setOk) ==
    /\ op = "Create" /\ pc = "save"
    /\ SaveAndSet(plan, createdCluster, fail, setOk)
    /\ UNCHANGED <<op, trace, pollVars, regionsVars, rolesVars, listed>>

-----------------------------------------------------------------------------
(* clusterResource.Read *)

\* the whole handler: req.State.Get, GetMdsCluster, saveFromResponse, State.Set
ClusterRead(decodeOk, err, cluster, fail, setOk) ==
    /\ op = "none"
    /\ op' = "Read"
    /\ IF ~decodeOk
       THEN /\ diags' = AddError(diags, "Value Conversion Error")
            /\ failures' = failures \cup {"Decode"}
            /\ pc' = "done"
            /\ UNCHANGED <<plan, trace, respState, pollVars, saveVars>>
       ELSE /\ trace' = Append(trace, Call("GetMdsCluster", PriorState.ID.value, err))
            /\ IF ~err.isNil
               THEN /\ plan' = PriorState
                    /\ diags' = AddError(diags, "Reading MDS Cluster")
                    /\ failures' = failures \cup {"RemoteCall"}
                    /\ pc' = "done"
                    /\ UNCHANGED <<respState, pollVars, saveVars>>
               ELSE /\ createdCluster' = cluster
                    /\ fetched' = Append(fetched, cluster)
                    /\ SaveAndSet(PriorState, cluster, fail, setOk)
    /\ UNCHANGED <<regionsVars, rolesVars, listed>>

-----------------------------------------------------------------------------
(* clusterResource.Update *)

\* the whole handler: req.Plan.Get, the request body, UpdateMdsCluster,
\* saveFromResponse of the cluster the update call returned, State.Set
ClusterUpdate(decodeOk, elementsOk, err, cluster, fail, setOk) ==
    /\ op = "none"
    /\ op' = "Update"
    /\ IF ~decodeOk
       THEN /\ diags' = AddError(diags, "Value Conversion Error")
            /\ failures' = failures \cup {"Decode"}
            /\ pc' = "done"
            /\ UNCHANGED <<plan, trace, respState, pollVars, saveVars>>
       ELSE /\ trace' = Append(trace, Call("UpdateMdsCluster", UpdatePlan.ID.value, err))
            /\ IF ~err.isNil
               THEN /\ plan' = UpdatePlan
                    /\ diags' = AddError(diags, "Updating MDS Cluster")
                    /\ failures' = failures \cup {"RemoteCall"}
                                            \cup (IF elementsOk THEN {} ELSE {"ElementsAs"})
                    /\ pc' = "done"
                    /\ UNCHANGED <<respState, pollVars, saveVars>>
               ELSE /\ createdCluster' = cluster
                    /\ UNCHANGED fetched
                    /\ LET r == SaveFromResponse(diags, UpdatePlan, cluster, fail)
                       IN  /\ savePre' = UpdatePlan
                           /\ saveRet' = r.ret
                           /\ plan' = r.state
                           /\ pc' = "done"
                           /\ diags' = IF r.ret = 0 /\ ~setOk
                                       THEN AddError(r.diags, "Value Conversion Error")
                                       ELSE r.diags
                           /\ failures' = failures
                                  \cup (IF elementsOk THEN {} ELSE {"ElementsAs"})
                                  \cup (IF r.ret # 0 THEN {"Conversion"} ELSE {})
                                  \cup (IF r.ret = 0 /\ ~setOk THEN {"StateSet"} ELSE {})
                           /\ respState' = IF r.ret = 0 /\ setOk
                                           THEN [set |-> TRUE, value |-> r.state]
                                           ELSE respState
    /\ UNCHANGED <<regionsVars, rolesVars, listed>>

-----------------------------------------------------------------------------
(* clusterResource.Delete *)

\* request.State.Get and DeleteMdsCluster
DeleteSubmit(decodeOk, err) ==
    /\ op = "none"
    /\ op' = "Delete"
    /\ IF ~decodeOk
       THEN /\ diags' = AddError(diags, "Value Conversion Error")
            /\ failures' = failures \cup {"Decode"}
            /\ pc' = "done"
            /\ UNCHANGED <<plan, trace>>
       ELSE /\ plan' = PriorState
            /\ trace' = Append(trace, Call("DeleteMdsCluster", PriorState.ID.value, err))
            /\ IF err.isNil
               THEN /\ pc' = "sleep"
                    /\ UNCHANGED <<diags, failures>>
               ELSE /\ diags' = AddError(diags, "Deleting MDS Cluster")
                    /\ failures' = failures \cup {"RemoteCall"}
                    /\ pc' = "done"
    /\ UNCHANGED <<respState, pollVars, saveVars, regionsVars, rolesVars, listed>>

DeleteSleep_Skips ==
    /\ op = "Delete" /\ pc = "sleep"
    /\ Cardinality(Calls(trace, "GetMdsCluster")) < MaxPolls
    /\ pc' = "fetch"
    /\ UNCHANGED <<op, plan, trace, diags, respState, pollVars, failures, saveVars, regionsVars, rolesVars, listed>>

\* time.Sleep(10 * time.Second) at the head of the confirmation loop
DeleteSleep ==
    /\ op = "Delete" /\ pc = "sleep"
    /\ Polls < MaxPolls
    /\ trace' = Append(trace, Sleep(PollInterval))
    /\ pc' = "fetch"
    /\ UNCHANGED <<op, plan, diags, respState, pollVars, failures, saveVars, regionsVars, rolesVars, listed>>

DeleteFetch_ClassifiesFailed(err, cluster) ==
    /\ op = "Delete" /\ pc = "fetch"
    /\ trace' = Append(trace, Call("GetMdsCluster", plan.ID.value, err))
    /\ IF err.isNil /\ cluster.Status = "FAILED"
       THEN /\ fetched' = Append(fetched, cluster)
            /\ diags' = AddError(diags, "Error deleting cluster")
            /\ failures' = failures \cup {"RemoteFailed"}
            /\ pc' = "done"
       ELSE IF err.isNil
       THEN /\ fetched' = Append(fetched, cluster)
            /\ pc' = "sleep"
            /\ UNCHANGED <<diags, failures>>
       ELSE IF IsNotFound(err)
       THEN /\ failures' = failures \cup {"NotFoundOnDelete"}
            /\ pc' = "done"
            /\ UNCHANGED <<diags, fetched>>
       ELSE /\ diags' = AddError(diags, "Fetching cluster")
            /\ failures' = failures \cup {"RemoteCall"}
            /\ pc' = "done"
            /\ UNCHANGED fetched
    /\ UNCHANGED <<op, plan, respState, createdCluster, saveVars, regionsVars, rolesVars, listed>>

\* GetMdsCluster(state.ID) and the classification of its error
DeleteFetch(err, cluster) ==
    /\ op = "Delete" /\ pc = "fetch"
    /\ trace' = Append(trace, Call("GetMdsCluster", plan.ID.value, err))
    /\ IF err.isNil
       THEN /\ fetched' = Append(fetched, cluster)
            /\ pc' = "sleep"
            /\ UNCHANGED <<diags, failures>>
       ELSE IF IsNotFound(err)
       THEN /\ failures' = failures \cup {"NotFoundOnDelete"}
            /\ pc' = "done"
            /\ UNCHANGED <<diags, fetched>>
       ELSE /\ diags' = AddError(diags, "Fetching cluster")
            /\ failures' = failures \cup {"RemoteCall"}
            /\ pc' = "done"
            /\ UNCHANGED fetched
    /\ UNCHANGED <<op, plan, respState, createdCluster, saveVars, regionsVars, rolesVars, listed>>

-----------------------------------------------------------------------------
(* regionsDataSource.Read *)

\* the whole handler: req.Config.Get (its error does not return),
\* GetRegionsWithDataPlanes, saveRegionsToState, the id, State.Set
RegionsRead(configOk, err, regions, order, failAt, setOk) ==
    LET d0 == IF configOk THEN diags ELSE AddError(diags, "Value Conversion Error")
        s0 == IF configOk THEN RegionsConfig ELSE ZeroRegionsModel
        f0 == failures \cup (IF configOk THEN {} ELSE {"Decode"})
        r  == SaveRegionsToState(d0, s0, regions, order, failAt)
    IN  /\ op = "none"
        /\ op' = "RegionsRead"
        /\ pc' = "done"
        /\ trace' = Append(trace, Call("GetRegionsWithDataPlanes", "", err))
        /\ IF ~err.isNil
           THEN /\ diags' = AddError(d0, "Unable to Read MDS Regions:")
                /\ failures' = f0 \cup {"RemoteCall"}
                /\ regionsState' = s0
                /\ UNCHANGED <<respState, regionsOut>>
           ELSE /\ regionsOut' = r.ret
                /\ IF r.ret # 0
                   THEN /\ regionsState' = r.state
                        /\ diags' = r.diags
                        /\ failures' = f0 \cup (IF failAt \in 1..Len(order) THEN {"Conversion"} ELSE {})
                        /\ UNCHANGED respState
                   ELSE /\ regionsState' = [r.state EXCEPT !.Id = StringValue("placeholder")]
                        /\ diags' = IF setOk THEN r.diags
                                    ELSE AddError(r.diags, "Value Conversion Error")
                        /\ failures' = f0 \cup (IF setOk THEN {} ELSE {"StateSet"})
                        /\ respState' = IF setOk
                                        THEN [set |-> TRUE, value |-> regionsState']
                                        ELSE respState
        /\ regionsIn' = (IF err.isNil THEN regions ELSE regionsIn)
        /\ regionsPre' = (IF err.isNil THEN s0.Regions ELSE regionsPre)
        /\ UNCHANGED <<plan, pollVars, saveVars, rolesVars, listed>>

-----------------------------------------------------------------------------
(* serviceRolesDatasource.Read *)

\* greatest number of roles in a response
MaxRoles == 2

\* a permission of a remote role
Permission(id) == [Name |-> id, Description |-> "may " \o id, PermissionId |-> id]

\* the remote roles, as the fields Read copies
RemoteRoles ==
    {[RoleID |-> "ra", Name |-> "admin", Description |-> "administers", Type |-> "RABBITMQ",
      Permissions |-> <<Permission("p1")>>],
     [RoleID |-> "rb", Name |-> "reader", Description |-> "reads", Type |-> "RABBITMQ",
      Permissions |-> <<Permission("p2"), Permission("p3")>>]}

\* rolesResponse.Embedded.ServiceRoleDTO[0].Roles (the response holds a DTO)
RoleLists == UNION {[1..n -> RemoteRoles] : n \in 0..MaxRoles}

\* MdsServiceRolePermissionsModel of a remote permission
PermissionsModelOf(p) ==
    [Name |-> StringValue(p.Name), Description |-> StringValue(p.Description),
     PermissionId |-> StringValue(p.PermissionId)]

\* ServiceRolesModel of a remote role, with the permissions it is given
ServiceRolesModel(role, permissionsVal) ==
    [RoleId |-> StringValue(role.RoleID), Name |-> StringValue(role.Name),
     Description |-> StringValue(role.Description), Type |-> StringValue(role.Type),
     Permissions |-> permissionsVal]

RECURSIVE RolesLoop(_, _, _, _)
\* the outer loop of Read from the i-th role on: the role's permissions are
\* appended to permissionsVal, which is never reset, and the inner loop then
\* appends every role of the response with the permissions gathered so far
RolesLoop(roles, i, permissionsVal, stateRoles) ==
    IF i > Len(roles) THEN stateRoles
    ELSE
    LET gathered == permissionsVal \o
                       [k \in 1..Len(roles[i].Permissions) |->
                           PermissionsModelOf(roles[i].Permissions[k])]
        appended == stateRoles \o
                       [j \in 1..Len(roles) |-> ServiceRolesModel(roles[j], gathered)]
    IN  RolesLoop(roles, i + 1, gathered, appended)

\* the whole handler: req.Config.Get (its error does not return),
\* GetMdsServiceRoles, the two loops, State.Set
ServiceRolesRead(configOk, err, roles, setOk) ==
    LET d0 == IF configOk THEN diags ELSE AddError(diags, "Value Conversion Error")
        f0 == failures \cup (IF configOk THEN {} ELSE {"Decode"})
        stateRoles == RolesLoop(roles, 1, <<>>, <<>>)
    IN  /\ op = "none"
        /\ op' = "ServiceRolesRead"
        /\ pc' = "done"
        /\ trace' = Append(trace, Call("GetMdsServiceRoles", "RABBITMQ", err))
        /\ IF ~err.isNil
           THEN /\ diags' = AddError(d0, "Unable to Read MDS Service roles")
                /\ failures' = f0 \cup {"RemoteCall"}
                /\ UNCHANGED <<respState, rolesVars>>
           ELSE /\ rolesResponse' = roles
                /\ rolesState' = stateRoles
                /\ diags' = IF setOk THEN d0 ELSE AddError(d0, "Value Conversion Error")
                /\ failures' = f0 \cup (IF setOk THEN {} ELSE {"StateSet"})
                /\ respState' = IF setOk
                                THEN [set |-> TRUE,
                                      value |-> [Roles |-> stateRoles,
                                                 Type |-> StringValue("RABBITMQ")]]
                                ELSE respState
        /\ UNCHANGED <<plan, pollVars, saveVars, regionsVars, listed>>

-----------------------------------------------------------------------------
(* The specification *)

Next ==
    \/ \E decodeOk, elementsOk \in BOOLEAN, err \in Results :
           CreateSubmit(decodeOk, elementsOk, err)
    \/ \E err \in Results, clusters \in ClusterLists : CreateList(err, clusters)
    \/ CreateSleep
    \/ \E err \in Results, cluster \in Clusters : CreateFetch(err, cluster)
    \/ \E fail \in ConversionFailures, setOk \in BOOLEAN : CreateSave(fail, setOk)
    \/ \E decodeOk, setOk \in BOOLEAN, err \in Results, cluster \in Clusters,
          fail \in ConversionFailures :
           ClusterRead(decodeOk, err, cluster, fail, setOk)
    \/ \E decodeOk, elementsOk, setOk \in BOOLEAN, err \in Results, cluster \in Clusters,
          fail \in ConversionFailures :
           ClusterUpdate(decodeOk, elementsOk, err, cluster, fail, setOk)
    \/ \E decodeOk \in BOOLEAN, err \in Results : DeleteSubmit(decodeOk, err)
    \/ DeleteSleep
    \/ \E err \in Results, cluster \in Clusters : DeleteFetch(err, cluster)
    \/ \E configOk, setOk \in BOOLEAN, err \in Results, regions \in RegionMaps :
          \E order \in Orders(regions), failAt \in 0..Cardinality(DOMAIN regions) :
             RegionsRead(configOk, err, regions, order, failAt, setOk)
    \/ \E configOk, setOk \in BOOLEAN, err \in Results, roles \in RoleLists :
           ServiceRolesRead(configOk, err, roles, setOk)

Spec == Init /\ [][Next]_vars

\* a handler runs to completion: once the loop is left the tail of Create runs
FairSpec ==
    Spec /\ WF_vars(\E fail \in ConversionFailures, setOk \in BOOLEAN : CreateSave(fail, setOk))

-----------------------------------------------------------------------------
(* The state mappers on their own: each applied repeatedly to one target *)

\* greatest number of applications of one mapper to its target
MaxApplications == 2

Applications(name) == Cardinality(Calls(trace, name))

\* a target model, a snapshot and a regions map, before any mapper call
MapperInit ==
    /\ op = "mapper"
    /\ pc = "idle"
    /\ plan \in {CreatePlan, PriorState}
    /\ createdCluster \in Clusters
    /\ regionsState = RegionsConfig
    /\ regionsIn \in RegionMaps
    /\ diags = <<>>
    /\ respState = NoState
    /\ trace = <<>>
    /\ fetched = <<>>
    /\ failures = {}
    /\ savePre = ZeroModel
    /\ saveRet = -1
    /\ regionsOut = -1
    /\ regionsPre = <<>>
    /\ listed = <<>>
    /\ rolesResponse = <<>>
    /\ rolesState = <<>>

\* saveFromResponse(&ctx, &diagnostics, &plan, createdCluster)
ApplySaveFromResponse(fail) ==
    LET r == SaveFromResponse(diags, plan, createdCluster, fail)
    IN  /\ op = "mapper"
        /\ Applications("saveFromResponse") < MaxApplications
        /\ trace' = Append(trace, Call("saveFromResponse", createdCluster.ID, NilError))
        /\ savePre' = plan
        /\ saveRet' = r.ret
        /\ plan' = r.state
        /\ diags' = r.diags
        /\ UNCHANGED <<op, pc, respState, pollVars, failures, regionsVars, rolesVars, listed>>

\* saveRegionsToState(&ctx, &diagnostics, &state, regions), the map visited in
\* the order this call happens to take
ApplySaveRegionsToState(order, failAt) ==
    LET r == SaveRegionsToState(diags, regionsState, regionsIn, order, failAt)
    IN  /\ op = "mapper"
        /\ Applications("saveRegionsToState") < MaxApplications
        /\ trace' = Append(trace, Call("saveRegionsToState", "", NilError))
        /\ regionsPre' = regionsState.Regions
        /\ regionsOut' = r.ret
        /\ regionsState' = r.state
        /\ diags' = r.diags
        /\ UNCHANGED <<op, pc, plan, respState, pollVars, failures, saveVars, regionsIn,
                       rolesVars, listed>>

MapperNext ==
    \/ \E fail \in ConversionFailures : ApplySaveFromResponse(fail)
    \/ \E order \in Orders(regionsIn), failAt \in 0..Cardinality(DOMAIN regionsIn) :
          ApplySaveRegionsToState(order, failAt)

MapperSpec == MapperInit /\ [][MapperNext]_vars

-----------------------------------------------------------------------------
(* Vocabulary of the properties *)

LifecycleOps == {"Create", "Read", "Update", "Delete"}

TerminalStatuses == {"READY", "FAILED"}

\* the mutation request of each lifecycle operation
MutationOf(o) ==
    CASE o = "Create" -> "CreateMdsCluster"
      [] o = "Update" -> "UpdateMdsCluster"
      [] o = "Delete" -> "DeleteMdsCluster"
      [] OTHER -> "none"

FetchCalls == {"GetMdsClusters", "GetMdsCluster"}

Fetches == {i \in 1..Len(trace) : trace[i].call \in FetchCalls}

\* the remote calls of the trace that returned an error
FailedCalls == {i \in 1..Len(trace) : ~trace[i].res.isNil}

\* the not-found answer to a confirmation fetch of Delete
IsDeleteNotFound(i) ==
    /\ op = "Delete"
    /\ trace[i].call = "GetMdsCluster"
    /\ trace[i].res.api
    /\ trace[i].res.code = 404

\* position of the first terminal status in a sequence of snapshots (0: none)
FirstTerminal(snapshots) ==
    LET T == {i \in 1..Len(snapshots) : snapshots[i].Status \in TerminalStatuses}
    IN  IF T = {} THEN 0 ELSE CHOOSE i \in T : \A j \in T : i <= j

\* the fields saveFromResponse copies, as they must read for snapshot c
MappedFrom(value, c) ==
    /\ value.ID = [state |-> "known", value |-> c.ID]
    /\ value.Name = [state |-> "known", value |-> c.Name]
    /\ value.Status = [state |-> "known", value |-> c.Status]
    /\ value.OrgId = [state |-> "known", value |-> c.OrgId]
    /\ value.DataPlaneId = [state |-> "known", value |-> c.DataPlaneId]
    /\ value.LastUpdated = [state |-> "known", value |-> c.LastUpdated]
    /\ value.Created = [state |-> "known", value |-> c.Created]
    /\ value.Metadata.state = "known"
    /\ value.Metadata.attrs.manager_uri.value = c.Metadata.ManagerUri
    /\ value.Metadata.attrs.connection_uri.value = c.Metadata.ConnectionUri
    /\ value.Tags.state = "known"
    /\ {e.value : e \in value.Tags.elems} = {c.Tags[i] : i \in 1..Len(c.Tags)}

-----------------------------------------------------------------------------
(* Properties *)

\* C1: Create never writes state from a snapshot whose status is non-terminal:
\* when resp.State.Set has succeeded the snapshot saved (the last one fetched)
\* is READY or FAILED, and otherwise Create is still running or has ended with
\* an error diagnostic.
C1_CreateWritesOnlyTerminal ==
    op = "Create" =>
        /\ respState.set =>
              /\ createdCluster.Status \in TerminalStatuses
              /\ Last(fetched) = createdCluster
              /\ respState.value.Status.state = "known"
              /\ respState.value.Status.value \in TerminalStatuses
        /\ (fetched # <<>> /\ Last(fetched).Status \notin TerminalStatuses) => ~respState.set
        /\ ~respState.set => (pc # "done" \/ HasError(diags))

\* a Create that polled at least once and then wrote its state
C1_Witness ==
    /\ op = "Create"
    /\ respState.set
    /\ Len(fetched) >= 2
    /\ fetched[1].Status \notin TerminalStatuses

C3_FailedEndsFailed ==
    (op = "Create" /\ fetched # <<>> /\ Last(fetched).Status = "FAILED")
    => (/\ pc # "sleep" /\ pc # "fetch"
        /\ pc = "done" => (HasError(diags) /\ ~respState.set))

\* C4: in Delete, a confirmation fetch answered with a 404 ApiError is the
\* last remote call, ends the operation and adds no error diagnostic; when it
\* is the first confirmation fetch exactly one fetch was made.
C4_NotFoundEndsDelete ==
    op = "Delete" =>
        \A i \in 1..Len(trace) :
            IsDeleteNotFound(i) =>
                /\ i = Len(trace)
                /\ pc = "done"
                /\ ~HasError(diags)
                /\ (i = 3 => Cardinality(Fetches) = 1)

\* a Delete whose first confirmation fetch was answered not-found
C4_Witness ==
    /\ op = "Delete" /\ pc = "done"
    /\ Len(trace) = 3
    /\ IsDeleteNotFound(3)

\* C5: in Create, Read, Update and Delete a failed remote call, other than
\* the not-found of Delete's confirmation, is the last remote call or sleep of
\* the operation, which has ended with an error diagnostic and without writing
\* resp.State.
C5_FirstFailureAborts ==
    op \in LifecycleOps =>
        \A i \in FailedCalls :
            ~IsDeleteNotFound(i) =>
                /\ i = Len(trace)
                /\ pc = "done"
                /\ HasError(diags)
                /\ ~respState.set

\* a Create whose poll fetch failed after a successful list fetch
C5_Witness ==
    /\ op = "Create" /\ pc = "done"
    /\ fetched # <<>>
    /\ Last(trace).call = "GetMdsCluster"
    /\ ~Last(trace).res.isNil

\* C6: when a Create has ended after fetches that all succeeded, the number of
\* fetches is the position of the first terminal status among the snapshots;
\* a READY there gives a success (when the mapping reports no error) and a
\* FAILED there gives a failure: an error diagnostic and no state.
C6_FetchCountAndOutcome ==
    (/\ op = "Create" /\ pc = "done"
     /\ FailedCalls = {}
     /\ fetched # <<>>)
    => (/\ FirstTerminal(fetched) = Len(fetched)
        /\ Cardinality(Fetches) = Len(fetched)
        /\ (Last(fetched).Status = "READY" /\ saveRet = 0 /\ "StateSet" \notin failures)
              => (respState.set /\ ~HasError(diags))
        /\ Last(fetched).Status = "FAILED" => (HasError(diags) /\ ~respState.set))

\* the part of C6 about the number of fetches alone: Create neither stops
\* before the first terminal status nor fetches after it
FetchCountIsFirstTerminal ==
    (op = "Create" /\ "EmptyList" \notin failures) =>
        /\ Cardinality(Fetches \ FailedCalls) = Len(fetched)
        /\ FirstTerminal(fetched) \in {0, Len(fetched)}
        /\ (pc \in {"sleep", "fetch"} => FirstTerminal(fetched) = 0)
        /\ (pc = "save" \/ respState.set) => FirstTerminal(fetched) = Len(fetched)

\* C7: a lifecycle operation that has ended without an error diagnostic met
\* no failure other than the not-found of Delete's confirmation.
C7_NoSilentFailure ==
    (op \in LifecycleOps /\ pc = "done" /\ ~HasError(diags))
    => failures \subseteq {"NotFoundOnDelete"}

\* C8: Create, Update and Delete submit their mutation request at most once,
\* exactly once when the plan / state was decoded, as the first remote call;
\* no fetch comes before it.
C8_MutationSubmittedOnce ==
    op \in {"Create", "Update", "Delete"} =>
        LET m == Calls(trace, MutationOf(op))
        IN  /\ Cardinality(m) <= 1
            /\ "Decode" \notin failures => m = {1}
            /\ "Decode" \in failures => trace = <<>>
            /\ \A i \in Fetches : \E j \in m : j < i

\* a Create that went twice round its loop
C8_Witness ==
    /\ op = "Create"
    /\ Cardinality(Calls(trace, "GetMdsCluster")) >= 2
    /\ Cardinality(Calls(trace, "CreateMdsCluster")) = 1

\* C9: in Create and Delete every GetMdsCluster comes right after one sleep
\* of 10 seconds, itself not preceded by another sleep, and every sleep is
\* followed by a GetMdsCluster.
C9_OneSleepBeforeEachPoll ==
    op \in {"Create", "Delete"} =>
        /\ \A i \in Calls(trace, "GetMdsCluster") :
              /\ i > 1
              /\ trace[i - 1].call = "Sleep"
              /\ trace[i - 1].dur = 10
              /\ i > 2 => trace[i - 2].call # "Sleep"
        /\ \A i \in Calls(trace, "Sleep") :
              /\ i < Len(trace) => trace[i + 1].call = "GetMdsCluster"
              /\ i = Len(trace) => pc = "fetch"

\* a Delete that polled twice
C9_Witness ==
    /\ op = "Delete"
    /\ Cardinality(Calls(trace, "GetMdsCluster")) >= 2

\* C10: a mapper call that returns non-zero leaves its target as it was:
\* saveFromResponse the local model, saveRegionsToState the Regions list.
C10_FailedMappingLeavesTarget ==
    /\ saveRet > 0 => plan = savePre
    /\ regionsOut > 0 => regionsState.Regions = RegionsConfig.Regions

\* C11: a second application of a state mapper to the same input and target,
\* no conversion having failed, leaves the target as the first left it.
C11_MappersIdempotent ==
    (op = "mapper" /\ diags = <<>>) =>
        /\ Applications("saveFromResponse") >= 2 => plan = savePre
        /\ Applications("saveRegionsToState") >= 2 =>
              /\ regionsState.Regions = regionsPre
              /\ Len(regionsState.Regions) = Cardinality(DOMAIN regionsIn)

\* the half of C11 about saveFromResponse alone
SaveFromResponseIdempotent ==
    (op = "mapper" /\ diags = <<>> /\ Applications("saveFromResponse") >= 2)
    => plan = savePre

\* C12 (as stated): after a successful saveFromResponse of a snapshot without metadata
\* the target's Metadata is a known object whose attributes are all set:
\* manager_uri and connection_uri empty strings, metrics_endpoints an empty
\* list; none is null or unknown.
C12_NilMetadataDefaultsSet ==
    (op \in {"Create", "Read", "Update"} /\ saveRet = 0 /\ createdCluster.Metadata.isNil)
    => (/\ plan.Metadata.state = "known"
        /\ plan.Metadata.attrs.manager_uri = [state |-> "known", value |-> ""]
        /\ plan.Metadata.attrs.connection_uri = [state |-> "known", value |-> ""]
        /\ plan.Metadata.attrs.metrics_endpoints = [state |-> "known", elems |-> <<>>])

\* C12 (amended): after a successful saveFromResponse of a snapshot without
\* metadata the target's Metadata is a known object with manager_uri and
\* connection_uri known empty strings and metrics_endpoints a null list; no
\* attribute is unknown.
C12_NilMetadataObjectPresent ==
    (op \in {"Create", "Read", "Update"} /\ saveRet = 0 /\ createdCluster.Metadata.isNil)
    => (/\ plan.Metadata.state = "known"
        /\ plan.Metadata.attrs.manager_uri = [state |-> "known", value |-> ""]
        /\ plan.Metadata.attrs.connection_uri = [state |-> "known", value |-> ""]
        /\ plan.Metadata.attrs.metrics_endpoints.state = "null")

\* a Create that mapped a READY snapshot without metadata into its plan
C12_Witness ==
    /\ op = "Create" /\ saveRet = 0
    /\ createdCluster.Metadata.isNil
    /\ savePre.Metadata.state = "unknown"
    /\ respState.set

\* what a poll loop with no attempt count and no deadline comes to, in states:
\* while every fetch succeeded and (Create) the last status is non-terminal,
\* the operation has not returned; an operation that has returned did so on a
\* decode error, a failed call, an empty list or (Create) a terminal status
StillPollingUnlessSettled ==
    /\ (op = "Create" /\ FailedCalls = {} /\ fetched # <<>>
           /\ Last(fetched).Status \notin TerminalStatuses)
          => pc \in {"sleep", "fetch"}
    /\ (op = "Delete" /\ FailedCalls = {} /\ "Decode" \notin failures)
          => pc \in {"sleep", "fetch"}
    /\ (op = "Create" /\ pc = "done")
          => \/ "Decode" \in failures
             \/ "EmptyList" \in failures
             \/ ~Last(trace).res.isNil
             \/ Last(fetched).Status \in TerminalStatuses
    /\ (op = "Delete" /\ pc = "done")
          => ("Decode" \in failures \/ ~Last(trace).res.isNil)

\* C13: the loops of Create and Delete have no budget: they are still polling
\* after any number of successful non-terminal fetches, and return only on a
\* terminal status (Create) or a fetch error; once Create has fetched READY or
\* FAILED it does return.
C13_NoBudgetYetReturnsWhenSettled ==
    /\ []StillPollingUnlessSettled
    /\ (op = "Create" /\ fetched # <<>> /\ Last(fetched).Status \in TerminalStatuses)
          ~> (op = "Create" /\ pc = "done")

\* a Create still polling after two pending polls
C13_Witness ==
    /\ op = "Create" /\ pc = "sleep"
    /\ Polls >= 2
    /\ \A i \in 1..Len(fetched) : fetched[i].Status \notin TerminalStatuses

\* C14 (as stated): Update writes state only from a snapshot in a terminal
\* status.
C14_UpdateWritesOnlyTerminal ==
    (op = "Update" /\ respState.set)
    => (/\ createdCluster.Status \in TerminalStatuses
        /\ respState.value.Status.value \in TerminalStatuses)

\* C14 (amended): Update does not poll: it makes no fetch and no sleep, its
\* only remote call is UpdateMdsCluster, and the state it writes is mapped
\* from the snapshot that call returned, whatever its status.
C14_UpdateDoesNotPoll ==
    op = "Update" =>
        /\ Fetches = {}
        /\ Calls(trace, "Sleep") = {}
        /\ Len(trace) <= 1
        /\ fetched = <<>>
        /\ respState.set =>
              /\ trace = <<[call |-> "UpdateMdsCluster", id |-> "c1", dur |-> 0,
                            res |-> NilError]>>
              /\ MappedFrom(respState.value, createdCluster)

\* an Update that wrote its state from a snapshot still in a non-terminal status
C14_Witness ==
    /\ op = "Update" /\ pc = "done"
    /\ respState.set
    /\ createdCluster.Status \in NonTerminalStatuses

\* C15: when GetMdsClusters succeeds with an empty list Create ends with the
\* one error diagnostic of line 284 ("Fetching Clusters": unable to fetch the
\* created cluster), without a poll fetch, a sleep or a state write; otherwise
\* the cluster polled is the first of the list, and each GetMdsCluster is
\* called with the ID of the snapshot fetched just before it.
C15_EmptyListOrPollFirst ==
    (op = "Create" /\ Len(trace) >= 2 /\ trace[2].res.isNil) =>
        /\ listed = <<>> =>
              /\ pc = "done"
              /\ diags = <<"Fetching Clusters">>
              /\ Len(trace) = 2
              /\ Calls(trace, "GetMdsCluster") = {}
              /\ Calls(trace, "Sleep") = {}
              /\ ~respState.set
        /\ listed # <<>> =>
              /\ fetched[1] = listed[1]
              /\ \A i \in Calls(trace, "GetMdsCluster") :
                    /\ (i - 2) \div 2 \in 1..Len(fetched)
                    /\ trace[i].id = fetched[(i - 2) \div 2].ID

\* a Create given a list of two clusters whose first poll returned a snapshot
\* with another ID, and that then polled again
C15_Witness ==
    /\ op = "Create"
    /\ Len(listed) = 2
    /\ Cardinality(Calls(trace, "GetMdsCluster")) >= 2
    /\ fetched[1].ID # fetched[2].ID

\* C16: Delete never classifies a fetched status: after a successful
\* confirmation fetch, whatever its status, Delete goes back to sleep with no
\* diagnostic; it returns only on a decode error or a failed call, and never
\* with a diagnostic derived from a remote status.
C16_DeleteIgnoresStatus ==
    op = "Delete" =>
        /\ (trace # <<>> /\ Last(trace).call = "GetMdsCluster" /\ Last(trace).res.isNil)
              => (pc = "sleep" /\ diags = <<>>)
        /\ pc = "done" => ("Decode" \in failures \/ ~Last(trace).res.isNil)
        /\ \A i \in 1..Len(diags) :
              diags[i] \in {"Value Conversion Error", "Deleting MDS Cluster", "Fetching cluster"}
        /\ Cardinality(Calls(trace, "GetMdsCluster") \ FailedCalls) = Len(fetched)

\* a Delete still polling after a confirmation fetch that returned FAILED
C16_Witness ==
    /\ op = "Delete" /\ pc = "sleep"
    /\ fetched # <<>>
    /\ Last(fetched).Status = "FAILED"

\* C17: the state serviceRolesDatasource.Read writes holds one role per
\* remote role, in response order, each with exactly the permissions of the
\* remote role it stands for.
C17_RolesProjectedFieldForField ==
    (op = "ServiceRolesRead" /\ respState.set) =>
        /\ Len(respState.value.Roles) = Len(rolesResponse)
        /\ \A i \in 1..Len(rolesResponse) :
              /\ i <= Len(respState.value.Roles)
              /\ respState.value.Roles[i].RoleId.value = rolesResponse[i].RoleID
              /\ respState.value.Roles[i].Name.value = rolesResponse[i].Name
              /\ Len(respState.value.Roles[i].Permissions) = Len(rolesResponse[i].Permissions)
              /\ \A k \in 1..Len(rolesResponse[i].Permissions) :
                    /\ k <= Len(respState.value.Roles[i].Permissions)
                    /\ respState.value.Roles[i].Permissions[k].PermissionId.value
                          = rolesResponse[i].Permissions[k].PermissionId

\* what Read writes instead: for a response of n roles, n copies of the role
\* list, the copies of the i-th round carrying the permissions of roles 1..i
RolesWrittenPerRound ==
    (op = "ServiceRolesRead" /\ respState.set) =>
        LET n == Len(rolesResponse)
        IN  /\ Len(respState.value.Roles) = n * n
            /\ \A i, j \in 1..n :
                  /\ respState.value.Roles[(i - 1) * n + j].RoleId.value = rolesResponse[j].RoleID
                  /\ Len(respState.value.Roles[(i - 1) * n + j].Permissions)
                        >= Len(rolesResponse[i].Permissions)

====
